---- MODULE Spec2Model ----
(***************************************************************************)
(* Model of the README-generator service: the POST /webhook handler of     *)
(* server.js (signature verification) and lib/analyze.js (analyzeRepo and  *)
(* its helpers).                                                           *)
(*                                                                         *)
(* Strings that the code measures or compares character by character       *)
(* (signature headers) are sequences of one-character strings.  Strings    *)
(* that the code only tests for membership or equality are TLA+ strings.   *)
(***************************************************************************)
EXTENDS Integers, Sequences, FiniteSets, TLC

VARIABLES
    WEBHOOK_SECRET,       \* server.js:77
    SKIP_WEBHOOK_VERIFY,  \* server.js:78
    req,                  \* the webhook request being answered
    res,                  \* the response sent for req
    payload,              \* the handler's local `payload` when it finished
    extCounts,            \* argument of detectPrimaryLanguages
    languages,            \* its return value
    repo,                 \* the remote repository analyzeRepo looks at
    pc,                   \* analyzeRepo's position
    filesFound,           \* analyze.js:110
    toFetch,              \* analyze.js:134
    requested,            \* paths passed to safeGetFile so far, in order
    fileContents,         \* analyze.js:120, in insertion order
    detected              \* analysis.detected, analyze.js:148

wvars == <<WEBHOOK_SECRET, SKIP_WEBHOOK_VERIFY, req, res, payload>>
lvars == <<extCounts, languages>>
avars == <<repo, pc, filesFound, toFetch, requested, fileContents, detected>>
vars == <<wvars, lvars, avars>>

(***************************************************************************)
(*                       POST /webhook  (server.js)                        *)
(***************************************************************************)

\* Secrets the operator may configure; "" is process.env.WEBHOOK_SECRET unset.
Secrets == {"", "s3cret", "other"}

\* Keys a sender may sign with.
SignKeys == {"s3cret", "other"}

KeyCode(key) == CASE key = "s3cret" -> 1 [] key = "other" -> 2 [] OTHER -> 0

\* Raw body texts a sender may post.
BodyTexts == {"{\"ref\":\"main\"}", "null", "not json"}

BodyCode(text) ==
    CASE text = "{\"ref\":\"main\"}" -> 0
      [] text = "null" -> 1
      [] text = "not json" -> 2
      [] OTHER -> 3   \* "[object Object]"

\* req.body after express.raw({ type: 'application/json' }): a Buffer holding
\* the raw bytes when the content type matched, otherwise not a Buffer.
Bodies ==
    [isBuffer : {TRUE}, text : BodyTexts]
        \cup {[isBuffer |-> FALSE, text |-> "[object Object]"]}

HexChars ==
    <<"0", "1", "2", "3", "4", "5", "6", "7",
      "8", "9", "a", "b", "c", "d", "e", "f">>

Sha256HexLen == 64
Sha1HexLen == 40

HexLen(algo) == IF algo = "sha256" THEN Sha256HexLen ELSE Sha1HexLen

AlgoSalt(algo) == IF algo = "sha256" THEN 1 ELSE 3

\* crypto.createHmac(algo, key).update(body).digest('hex'): a hex string of
\* the algorithm's length, determined by (algo, key, body) and different for
\* different keys or bodies of the universe above.
HmacHex(algo, key, text) ==
    [i \in 1..HexLen(algo) |->
        HexChars[((KeyCode(key) * 4 + BodyCode(text) + i * AlgoSalt(algo)) % 16) + 1]]

Prefix(algo) ==
    IF algo = "sha256" THEN <<"s", "h", "a", "2", "5", "6", "=">>
    ELSE <<"s", "h", "a", "1", "=">>

\* 'sha256=' + hex digest  /  'sha1=' + hex digest
Computed(algo, key, text) == Prefix(algo) \o HmacHex(algo, key, text)

\* A request header: absent (undefined) or a string value.
Absent == [present |-> FALSE, value |-> <<>>]
Hdr(v) == [present |-> TRUE, value |-> v]

\* JavaScript truthiness of a header value: undefined and '' are falsy.
Truthy(h) == h.present /\ h.value # <<>>

OtherAlgo(algo) == IF algo = "sha256" THEN "sha1" ELSE "sha256"

DropLast(s) == SubSeq(s, 1, Len(s) - 1)

\* Values a sender may put in the header of scheme `algo` for body `text`:
\* none, the empty string, the digest of the body under either key, the
\* digest of another body, the digest with its last character dropped, and
\* the digest of the other scheme.
HeaderValues(algo, text) ==
    {Absent, Hdr(<<>>)}
        \cup {Hdr(Computed(algo, k, text)) : k \in SignKeys}
        \cup {Hdr(Computed(algo, "s3cret", "not json")),
              Hdr(DropLast(Computed(algo, "s3cret", text))),
              Hdr(Computed(OtherAlgo(algo), "s3cret", text))}

Requests ==
    UNION {[body : {b}, sig256 : HeaderValues("sha256", b.text),
                       sig1 : HeaderValues("sha1", b.text)]
             : b \in Bodies}

NoReq == [body |-> [isBuffer |-> FALSE, text |-> ""], sig256 |-> Absent, sig1 |-> Absent]
NoRes == [status |-> 0, text |-> ""]
Response(s, t) == [status |-> s, text |-> t]

\* Values of the handler's `payload`.
EmptyObject == [kind |-> "object", keys |-> {}]
JsNull == [kind |-> "null", keys |-> {}]
NoPayload == [kind |-> "unset", keys |-> {}]

\* JSON.parse(text): ok = FALSE when it throws.
JsonParse(text) ==
    CASE text = "{\"ref\":\"main\"}" ->
            [ok |-> TRUE, value |-> [kind |-> "object", keys |-> {"ref"}]]
      [] text = "null" -> [ok |-> TRUE, value |-> JsNull]
      [] OTHER -> [ok |-> FALSE, value |-> NoPayload]

\* Mutant of SignatureMismatch: only the lengths are compared.
SignatureMismatchLengthOnly(header, computed) == Len(header) # Len(computed)

\* headerBuf.length !== computedBuf.length || !crypto.timingSafeEqual(...)
SignatureMismatch(header, computed) ==
    \/ Len(header) # Len(computed)
    \/ \E i \in 1..Len(computed) : header[i] # computed[i]

\* Hmac.update(req.body) throws a TypeError unless the body is a Buffer.
UpdateThrows(body) == ~body.isBuffer

\* server.js:101-134: the verification block; "pass" falls through to the
\* acceptance path, "throw" is an exception caught at server.js:165.
VerifyWith(secret, algo, header, body) ==
    IF UpdateThrows(body) THEN "throw"
    ELSE IF SignatureMismatch(header.value, Computed(algo, secret, body.text))
         THEN "invalid"
         ELSE "pass"

\* Mutant of Verify: the check for a missing secret is left out.
VerifyWithoutSecretCheck(secret, skip, r) ==
    IF ~skip THEN
        IF Truthy(r.sig256) THEN VerifyWith(secret, "sha256", r.sig256, r.body)
        ELSE IF Truthy(r.sig1) THEN VerifyWith(secret, "sha1", r.sig1, r.body)
        ELSE "missing"
    ELSE "pass"

\* Mutant of Verify: the sha1 header is looked at first.
VerifyPrefersSha1(secret, skip, r) ==
    IF ~skip THEN
        IF secret = "" THEN "nosecret"
        ELSE IF Truthy(r.sig1) THEN VerifyWith(secret, "sha1", r.sig1, r.body)
        ELSE IF Truthy(r.sig256) THEN VerifyWith(secret, "sha256", r.sig256, r.body)
        ELSE "missing"
    ELSE "pass"

Verify(secret, skip, r) ==
    IF ~skip THEN
        IF secret = "" THEN "nosecret"
        ELSE IF Truthy(r.sig256) THEN VerifyWith(secret, "sha256", r.sig256, r.body)
        ELSE IF Truthy(r.sig1) THEN VerifyWith(secret, "sha1", r.sig1, r.body)
        ELSE "missing"
    ELSE "pass"

\* server.js:139-144: payload = {} and a parse failure is only logged.
ParsePayload(body) ==
    IF JsonParse(body.text).ok THEN JsonParse(body.text).value ELSE EmptyObject

\* Mutant of WebhookResponse: a body that is not JSON is turned away.
WebhookResponseRejectsBadJson(secret, skip, r) ==
    LET v == Verify(secret, skip, r) IN
    CASE v = "nosecret" -> Response(500, "Webhook secret not configured on server")
      [] v = "invalid" -> Response(401, "Invalid signature")
      [] v = "missing" -> Response(401, "Missing signature header")
      [] v = "throw" -> Response(500, "server error")
      [] OTHER -> IF JsonParse(r.body.text).ok THEN Response(200, "ok")
                  ELSE Response(400, "invalid JSON")

\* The response of the whole handler, server.js:87-169.
WebhookResponse(secret, skip, r) ==
    LET v == Verify(secret, skip, r) IN
    CASE v = "nosecret" -> Response(500, "Webhook secret not configured on server")
      [] v = "invalid" -> Response(401, "Invalid signature")
      [] v = "missing" -> Response(401, "Missing signature header")
      [] v = "throw" -> Response(500, "server error")
      [] OTHER -> Response(200, "ok")

WebhookPayload(secret, skip, r) ==
    IF Verify(secret, skip, r) = "pass" THEN ParsePayload(r.body) ELSE NoPayload

(***************************************************************************)
(*                 detectPrimaryLanguages  (lib/analyze.js)                *)
(***************************************************************************)

\* JavaScript null, for slots that otherwise hold a string.
NULL == "<null>"

\* analyze.js:27-42; NULL where map[ext] is undefined.
LanguageMap(ext) ==
    CASE ext = "js" -> "JavaScript"
      [] ext = "ts" -> "TypeScript"
      [] ext = "py" -> "Python"
      [] ext = "java" -> "Java"
      [] ext = "go" -> "Go"
      [] ext = "rs" -> "Rust"
      [] ext = "rb" -> "Ruby"
      [] ext = "php" -> "PHP"
      [] ext = "cpp" -> "C/C++"
      [] ext = "c" -> "C/C++"
      [] ext = "cs" -> "C#"
      [] ext = "swift" -> "Swift"
      [] ext = "kt" -> "Kotlin"
      [] ext = "sh" -> "Shell"
      [] OTHER -> NULL

\* Extensions the trees of the model contain.
Exts == {"js", "ts", "py", "cpp", "c", "unknownext"}

MaxExts == 4
MaxCount == 2

\* An ExtensionCounts object is the sequence of its [ext, count] entries in
\* Object.entries order (insertion order), with distinct keys.
ExtCountsInputs ==
    {s \in UNION {[1..k -> [ext : Exts, count : 1..MaxCount]] : k \in 0..MaxExts} :
        \A i, j \in DOMAIN s : i # j => s[i].ext # s[j].ext}

\* Place e behind every entry whose count is not smaller: one step of a
\* stable sort with comparator (a, b) => b[1] - a[1].
RECURSIVE InsertDesc(_, _)
InsertDesc(e, sorted) ==
    IF sorted = <<>> THEN <<e>>
    ELSE IF Head(sorted).count >= e.count
         THEN <<Head(sorted)>> \o InsertDesc(e, Tail(sorted))
         ELSE <<e>> \o sorted

\* Object.entries(extCounts).sort((a, b) => b[1] - a[1]), analyze.js:43
RECURSIVE Ranked(_)
Ranked(entries) ==
    IF entries = <<>> THEN <<>>
    ELSE InsertDesc(entries[Len(entries)],
                    Ranked(SubSeq(entries, 1, Len(entries) - 1)))

\* analyze.js:44-47: the label of every ranked extension the map knows.
RECURSIVE MappedLabels(_)
MappedLabels(ranked) ==
    IF ranked = <<>> THEN <<>>
    ELSE IF LanguageMap(Head(ranked).ext) # NULL
         THEN <<LanguageMap(Head(ranked).ext)>> \o MappedLabels(Tail(ranked))
         ELSE MappedLabels(Tail(ranked))

MaxLanguages == 3

\* s.slice(0, n)
Slice(s, n) == SubSeq(s, 1, IF Len(s) < n THEN Len(s) ELSE n)

\* analyze.js:26-49
detectPrimaryLanguages(counts) == Slice(MappedLabels(Ranked(counts)), MaxLanguages)

NoLanguages == [done |-> FALSE, value |-> <<>>]

LangInit ==
    /\ extCounts \in ExtCountsInputs
    /\ languages = NoLanguages

CallDetectPrimaryLanguages ==
    /\ ~languages.done
    /\ languages' = [done |-> TRUE, value |-> detectPrimaryLanguages(extCounts)]
    /\ UNCHANGED <<extCounts, wvars, avars>>

(***************************************************************************)
(*                       analyzeRepo  (lib/analyze.js)                     *)
(*                                                                         *)
(* A path is the sequence of its "/"-separated segments.  A file text is a *)
(* record of its length and of what the code reads from it: the JSON       *)
(* document it spells, its instruction lines, and the marked substrings it *)
(* contains with the offset at which each ends.                            *)
(***************************************************************************)

\* analyze.js:5-10
PATHS_OF_INTEREST ==
    {"package.json", "requirements.txt", "Pipfile", "pyproject.toml", "setup.py",
     "go.mod", "Cargo.toml", "Gemfile", "composer.json",
     "Dockerfile", "docker-compose.yml", ".env.example", ".env.sample",
     "Makefile", "Procfile"}

\* analyze.js:12: path.startsWith('.github/workflows/')
StartsWithCiPrefix(path) ==
    Len(path) >= 3 /\ path[1] = ".github" /\ path[2] = "workflows"

\* Segments of the model whose lower-cased text contains "readme".
ReadmeSegments == {"README.md", "readme-assets"}

\* Segments matching __tests__|tests|test, case-insensitively.
TestSegments == {"__tests__", "tests", "test", "Tests"}

\* Mutant of IsPathOfInterest: the basename is compared.
IsPathOfInterestByBasename(path) == path[Len(path)] \in PATHS_OF_INTEREST

\* PATHS_OF_INTEREST.includes(path): the whole path is compared.
IsPathOfInterest(path) == Len(path) = 1 /\ path[1] \in PATHS_OF_INTEREST

\* path.toLowerCase().includes('readme')
IncludesReadme(path) == \E i \in 1..Len(path) : path[i] \in ReadmeSegments

\* t.path.match(/(^|\/)(__tests__|tests|test)($|\/)/i), analyze.js:234
MatchesTestFolder(path) == \E i \in 1..Len(path) : path[i] \in TestSegments

\* analyze.js:122-125
priority ==
    << <<"package.json">>, <<"pyproject.toml">>, <<"setup.py">>,
       <<"requirements.txt">>, <<"Pipfile">>, <<"Dockerfile">>,
       <<"docker-compose.yml">>, <<".env.example">>, <<".env.sample">>,
       <<"Makefile">> >>

SeqIncludes(s, x) == \E i \in 1..Len(s) : s[i] = x

\* --- file texts -----------------------------------------------------------

NoJson ==
    [kind |-> "invalid", hasScripts |-> FALSE, scripts |-> <<>>,
     main |-> NULL, name |-> NULL]

\* A package.json document; scripts in Object.values order.
Manifest(scripts, main, name) ==
    [kind |-> "object", hasScripts |-> scripts # <<>>, scripts |-> scripts,
     main |-> main, name |-> name]

NullText == [isNull |-> TRUE, len |-> 0, json |-> NoJson, lines |-> <<>>, marks |-> {}]

Text(len, json, lines, marks) ==
    [isNull |-> FALSE, len |-> len, json |-> json, lines |-> lines, marks |-> marks]

PlainText(len) == Text(len, NoJson, <<>>, {})

\* `if (txt)`: null and '' are falsy.
TextTruthy(t) == ~t.isNull /\ t.len > 0

KwLen(kw) ==
    CASE kw = "CMD" -> 3
      [] kw = "ENTRYPOINT" -> 10
      [] kw = "EXPOSE" -> 6
      [] kw = "FROM" -> 4
      [] OTHER -> 1

\* An instruction line "<kw> <arg>\n"; arg.n characters of the argument are
\* in the text.
Str(s) == [s |-> s, n |-> Len(s)]
Line(kw, s) == [kw |-> kw, arg |-> Str(s)]
LineLen(l) == KwLen(l.kw) + 1 + l.arg.n + 1

RECURSIVE LinesLen(_)
LinesLen(lines) ==
    IF lines = <<>> THEN 0 ELSE LineLen(Head(lines)) + LinesLen(Tail(lines))

\* "...[truncated]" as a capture of (.*)
MarkerArg == Str("...[truncated]")

\* What the regexes of analyze.js:207-209 can still see of `lines` in the
\* first r characters followed by '\n...[truncated]'.
RECURSIVE CutLines(_, _)
CutLines(lines, r) ==
    IF lines = <<>> \/ r <= 0 THEN <<>>
    ELSE LET l == Head(lines)
             k == KwLen(l.kw)
         IN  IF r >= LineLen(l) - 1
             THEN <<l>> \o CutLines(Tail(lines), r - LineLen(l))
             ELSE IF r >= k + 2
                  THEN <<[kw |-> l.kw, arg |-> [s |-> l.arg.s, n |-> r - k - 1]]>>
                  ELSE IF r >= k /\ l.kw \in {"CMD", "ENTRYPOINT"}
                       THEN <<[kw |-> l.kw, arg |-> MarkerArg]>>
                       ELSE <<>>

\* Length of '\n...[truncated]'
MarkerLen == 15

\* analyze.js:80-83
shortSnippet(text, max) ==
    IF ~TextTruthy(text) THEN Text(0, NoJson, <<>>, {})
    ELSE IF text.len > max
         THEN Text(max + MarkerLen, NoJson, CutLines(text.lines, max),
                   {m \in text.marks : m.end <= max})
         ELSE text

SnippetMax == 2000

\* JSON.parse(snippet): kind "invalid" when it throws.
ParseManifest(text) == text.json

\* text.includes(s)
TextIncludes(text, s) == \E m \in text.marks : m.s = s

\* --- the remote repositories of the model --------------------------------

StartCmd == "node server.js"
TestCmd == "jest --ci"

FullManifest ==
    Manifest(<<[name |-> "start", cmd |-> StartCmd], [name |-> "test", cmd |-> TestCmd]>>,
             "index.js", "readme-gen")

\* package.json as the repository holds it.
PackageJsonText(choice) ==
    CASE choice = "full" -> Text(300, FullManifest, <<>>, {})
      [] choice = "fullLong" -> Text(SnippetMax + 600, FullManifest, <<>>, {})
      [] choice = "nameOnly" -> Text(40, Manifest(<<>>, NULL, "readme-gen"), <<>>, {})
      [] choice = "mainOnly" -> Text(60, Manifest(<<>>, "index.js", NULL), <<>>, {})
      [] choice = "invalid" -> PlainText(25)
      [] OTHER -> NullText

PackageJsonChoices == {"none", "full", "fullLong", "nameOnly", "mainOnly", "invalid"}

PytestMark == [s |-> "[tool.pytest]", end |-> 90]

PythonChoices == {"none", "requirements", "pyproject"}

\* A comment line of n characters.
Comment(n) == [kw |-> "#", arg |-> [s |-> "comment", n |-> n - 3]]

DockerfileLines(choice) ==
    CASE choice = "multi" ->
            <<Line("FROM", "node:20"), Line("CMD", "npm run dev"),
              Line("EXPOSE", "3000"), Line("ENTRYPOINT", "sh"),
              Line("EXPOSE", "8080"), Line("ENTRYPOINT", "tini --"),
              Line("CMD", "npm start")>>
      [] choice = "noCmd" -> <<Line("FROM", "nginx"), Line("EXPOSE", "80")>>
      [] choice = "long" ->
            <<Line("FROM", "node:20"), Comment(SnippetMax - 20),
              Line("CMD", "npm start"), Line("EXPOSE", "3000")>>
      [] OTHER -> <<>>

DockerfileText(choice) ==
    IF choice = "none" THEN NullText
    ELSE Text(LinesLen(DockerfileLines(choice)), NoJson, DockerfileLines(choice), {})

DockerChoices == {"none", "multi", "noCmd", "long"}

\* Most workflow files a repository of the model holds.
MaxWorkflows == 31

WorkflowCounts == {0, 1, MaxWorkflows}

WorkflowPath(i) == <<".github", "workflows", "ci" \o ToString(i) \o ".yml">>

\* "ok": every content request succeeds; "fail": the request for the first
\* workflow file fails (safeGetFile returns null).
FetchChoices == {"ok", "fail"}

Repos ==
    {r \in [pkg : PackageJsonChoices, python : PythonChoices, docker : DockerChoices,
            tests : BOOLEAN, extras : BOOLEAN, workflows : WorkflowCounts,
            fetch : FetchChoices] :
        r.workflows = 0 => r.fetch = "ok"}

Blob(path) == [path |-> path, type |-> "blob"]
Dir(path) == [path |-> path, type |-> "tree"]

Opt(cond, entries) == IF cond THEN entries ELSE <<>>

\* treeResp.data.tree, analyze.js:102-103: every object of the repository,
\* in path order.
TreeOf(r) ==
    Opt(r.workflows > 0, <<Dir(<<".github">>), Dir(<<".github", "workflows">>)>>)
    \o [i \in 1..r.workflows |-> Blob(WorkflowPath(i))]
    \o Opt(r.docker # "none", <<Blob(<<"Dockerfile">>)>>)
    \o Opt(r.extras, <<Blob(<<"LICENSE">>), Blob(<<"README.md">>), Blob(<<"go.mod">>)>>)
    \o Opt(r.pkg # "none", <<Blob(<<"package.json">>)>>)
    \o Opt(r.python = "pyproject", <<Blob(<<"pyproject.toml">>)>>)
    \o Opt(r.extras, <<Dir(<<"readme-assets">>), Blob(<<"readme-assets", "logo.png">>)>>)
    \o Opt(r.python = "requirements", <<Blob(<<"requirements.txt">>)>>)
    \o Opt(r.extras, <<Dir(<<"sub">>), Blob(<<"sub", "package.json">>)>>)
    \o Opt(r.tests, <<Dir(<<"tests">>), Blob(<<"tests", "test_app.py">>)>>)

\* What octokit.rest.repos.getContent yields for `path`, as safeGetFile
\* returns it (analyze.js:85-94): the text, or null for a missing path, a
\* directory or a failed request.
safeGetFile(r, path) ==
    CASE path = <<"package.json">> -> PackageJsonText(r.pkg)
      [] path = <<"Dockerfile">> -> DockerfileText(r.docker)
      [] path = <<"pyproject.toml">> ->
            IF r.python = "pyproject" THEN Text(120, NoJson, <<>>, {PytestMark})
            ELSE NullText
      [] path = <<"requirements.txt">> ->
            IF r.python = "requirements" THEN PlainText(30) ELSE NullText
      [] path = <<"README.md">> ->
            IF r.extras THEN PlainText(SnippetMax + 1000) ELSE NullText
      [] path = <<"go.mod">> -> IF r.extras THEN PlainText(40) ELSE NullText
      [] path = <<"readme-assets", "logo.png">> ->
            IF r.extras THEN PlainText(500) ELSE NullText
      [] StartsWithCiPrefix(path) ->
            IF r.fetch = "fail" /\ path = WorkflowPath(1) THEN NullText
            ELSE IF \E i \in 1..r.workflows : path = WorkflowPath(i)
                 THEN PlainText(200)
                 ELSE NullText
      [] OTHER -> NullText

\* --- analyzeRepo's own state ----------------------------------------------

NoDockerInfo ==
    [isNull |-> TRUE, cmd |-> NULL, entrypoint |-> NULL, exposedPorts |-> <<>>]

\* analysis.detected as built at analyze.js:148-163 (readme, license, envVars
\* and assumptions are written once by their own stage and read by no other;
\* they are left out).
InitialDetected ==
    [projectType |-> NULL, entrypoint |-> NULL, runCommands |-> <<>>,
     testCommands |-> <<>>, packageManager |-> NULL, hasDocker |-> FALSE,
     dockerInfo |-> NoDockerInfo, hasCI |-> FALSE, ciFiles |-> <<>>,
     hasTests |-> FALSE]

\* fileContents[path], NullText when the key is not there.
RECURSIVE Lookup(_, _)
Lookup(contents, path) ==
    IF contents = <<>> THEN NullText
    ELSE IF Head(contents).path = path THEN Head(contents).text
         ELSE Lookup(Tail(contents), path)

\* Object.keys(fileContents)
Keys(contents) == [i \in 1..Len(contents) |-> contents[i].path]

\* a || b on values that are null or a string
Or(a, b) == IF a # NULL /\ a # "" THEN a ELSE b

\* .filter((v, i, a) => a.indexOf(v) === i): first occurrences, in order.
Dedup(s) ==
    LET first == {i \in 1..Len(s) : \A j \in 1..(i - 1) : s[j] # s[i]}
    IN  [k \in 1..Cardinality(first) |->
            s[CHOOSE i \in first : Cardinality({j \in first : j <= i}) = k]]

IsFileOfInterest(path) ==
    IsPathOfInterest(path) \/ StartsWithCiPrefix(path) \/ IncludesReadme(path)

BlobPaths(tree) ==
    LET blobs == SelectSeq(tree, LAMBDA e : e.type = "blob")
    IN  [i \in 1..Len(blobs) |-> blobs[i].path]

\* analyze.js:127-131: push, in order, every path of `paths` that the list
\* does not hold yet.
PushMissing(found, paths) ==
    found \o Dedup(SelectSeq(paths, LAMBDA p : ~SeqIncludes(found, p)))

\* analyze.js:110-117 followed by 127-131
FilesFound(tree) ==
    PushMissing(SelectSeq(BlobPaths(tree), IsFileOfInterest),
                SelectSeq(BlobPaths(tree), StartsWithCiPrefix))

\* Mutant of ToFetch: the priority list is not put in front.
ToFetchFoundOnly(found) == Dedup(found)

\* analyze.js:134
ToFetch(found) ==
    Dedup(priority \o SelectSeq(found, LAMBDA p : ~SeqIncludes(priority, p)))

FetchLimit == 40

\* Mutant of FetchList: the slice is left out.
FetchListUnbounded(list) == list

\* toFetch.slice(0, 40), analyze.js:136
FetchList(list) == Slice(list, FetchLimit)

AnalyzeInit ==
    /\ repo \in Repos
    /\ pc = "start"
    /\ filesFound = <<>>
    /\ toFetch = <<>>
    /\ requested = <<>>
    /\ fileContents = <<>>
    /\ detected = InitialDetected

\* analyze.js:98-134: the tree is fetched, the files of interest are
\* collected and the fetch order is fixed.
CollectFiles ==
    /\ pc = "start"
    /\ filesFound' = FilesFound(TreeOf(repo))
    /\ toFetch' = ToFetch(FilesFound(TreeOf(repo)))
    /\ pc' = "fetch"
    /\ UNCHANGED <<repo, requested, fileContents, detected, wvars, lvars>>

\* analyze.js:136-139: one iteration of the fetch loop.
FetchNext ==
    /\ pc = "fetch"
    /\ Len(requested) < Len(FetchList(toFetch))
    /\ LET path == FetchList(toFetch)[Len(requested) + 1]
           txt == safeGetFile(repo, path)
       IN  /\ requested' = Append(requested, path)
           /\ fileContents' =
                IF TextTruthy(txt)
                THEN Append(fileContents,
                            [path |-> path, text |-> shortSnippet(txt, SnippetMax)])
                ELSE fileContents
    /\ pc' = IF Len(requested) + 1 = Len(FetchList(toFetch)) THEN "packageJson" ELSE "fetch"
    /\ UNCHANGED <<repo, filesFound, toFetch, detected, wvars, lvars>>

\* pj.scripts[name], NULL when undefined
RECURSIVE ScriptNamed(_, _)
ScriptNamed(scripts, name) ==
    IF scripts = <<>> THEN NULL
    ELSE IF Head(scripts).name = name THEN Head(scripts).cmd
         ELSE ScriptNamed(Tail(scripts), name)

\* (pj.scripts && Object.values(pj.scripts)) || []
ScriptValues(pj) ==
    IF pj.hasScripts THEN [i \in 1..Len(pj.scripts) |-> pj.scripts[i].cmd] ELSE <<>>

IsTruthy(v) == v # NULL /\ v # ""

\* analyze.js:168-185 applied to the stored package.json snippet.
PackageJsonRule(d, snippet) ==
    IF ~TextTruthy(snippet) THEN d
    ELSE LET pj == ParseManifest(snippet)
             start == ScriptNamed(pj.scripts, "start")
             test == ScriptNamed(pj.scripts, "test")
             afterStart == IF IsTruthy(start) THEN start ELSE d.entrypoint
         IN  IF pj.kind = "invalid" THEN d
             ELSE [d EXCEPT
                     !.packageManager = "npm|yarn",
                     !.runCommands = @ \o ScriptValues(pj),
                     !.entrypoint =
                        IF IsTruthy(pj.main) THEN Or(afterStart, "node " \o pj.main)
                        ELSE afterStart,
                     !.testCommands = IF IsTruthy(test) THEN Append(@, test) ELSE @,
                     !.hasTests = IF IsTruthy(test) THEN TRUE ELSE @,
                     !.projectType = IF IsTruthy(pj.name) THEN Or(@, "node-project") ELSE @]

PackageJsonStage ==
    /\ pc = "packageJson"
    /\ detected' = PackageJsonRule(detected, Lookup(fileContents, <<"package.json">>))
    /\ pc' = "python"
    /\ UNCHANGED <<repo, filesFound, toFetch, requested, fileContents, wvars, lvars>>

\* Mutant of PythonRule: the slots are assigned without `||`.
PythonRuleOverwrites(d, contents) ==
    IF \/ TextTruthy(Lookup(contents, <<"requirements.txt">>))
       \/ TextTruthy(Lookup(contents, <<"pyproject.toml">>))
    THEN [d EXCEPT !.packageManager = "pip/poetry/pipenv",
                   !.projectType = "python-project"]
    ELSE d

\* analyze.js:188-199
PythonRule(d, contents) ==
    IF \/ TextTruthy(Lookup(contents, <<"requirements.txt">>))
       \/ TextTruthy(Lookup(contents, <<"pyproject.toml">>))
       \/ TextTruthy(Lookup(contents, <<"Pipfile">>))
       \/ TextTruthy(Lookup(contents, <<"setup.py">>))
    THEN LET pytest ==
                 /\ TextTruthy(Lookup(contents, <<"pyproject.toml">>))
                 /\ TextIncludes(Lookup(contents, <<"pyproject.toml">>), "[tool.pytest]")
         IN  [d EXCEPT
                !.packageManager = Or(@, "pip/poetry/pipenv"),
                !.hasTests = IF pytest THEN TRUE ELSE @,
                !.testCommands = IF pytest THEN Append(@, "pytest") ELSE @,
                !.projectType = Or(@, "python-project")]
    ELSE d

PythonStage ==
    /\ pc = "python"
    /\ detected' = PythonRule(detected, fileContents)
    /\ pc' = "docker"
    /\ UNCHANGED <<repo, filesFound, toFetch, requested, fileContents, wvars, lvars>>

\* The text a capture group (.*) or ([0-9]+) holds: the argument, or only
\* its first n characters when the snippet was cut inside it.
Captured(arg) ==
    IF arg.n >= Len(arg.s) THEN arg.s
    ELSE arg.s \o "[0:" \o ToString(arg.n) \o "]"

LinesOf(lines, kw) == SelectSeq(lines, LAMBDA l : l.kw = kw)

\* df.match(/<kw>\s+(.*)/i): String.prototype.match without the g flag
\* returns the first match; NULL when there is none.
MatchInstruction(lines, kw) ==
    IF LinesOf(lines, kw) = <<>> THEN NULL ELSE Captured(LinesOf(lines, kw)[1].arg)

\* [...df.matchAll(/EXPOSE\s+([0-9]+)/ig)].map(x => x[1])
MatchAllExpose(lines) ==
    [i \in 1..Len(LinesOf(lines, "EXPOSE")) |-> Captured(LinesOf(lines, "EXPOSE")[i].arg)]

\* analyze.js:204-213
DockInfo(contents) ==
    LET df == Lookup(contents, <<"Dockerfile">>)
    IN  IF TextTruthy(df)
        THEN [isNull |-> FALSE,
              cmd |-> MatchInstruction(df.lines, "CMD"),
              entrypoint |-> MatchInstruction(df.lines, "ENTRYPOINT"),
              exposedPorts |-> MatchAllExpose(df.lines)]
        ELSE [isNull |-> FALSE, cmd |-> NULL, entrypoint |-> NULL, exposedPorts |-> <<>>]

\* analyze.js:202-217
DockerRule(d, contents) ==
    IF \/ TextTruthy(Lookup(contents, <<"Dockerfile">>))
       \/ TextTruthy(Lookup(contents, <<"docker-compose.yml">>))
    THEN LET dock == DockInfo(contents)
         IN  [d EXCEPT
                !.hasDocker = TRUE,
                !.dockerInfo = dock,
                !.entrypoint = IF ~IsTruthy(@) /\ IsTruthy(dock.cmd) THEN dock.cmd ELSE @,
                !.projectType = Or(@, "dockerized-app")]
    ELSE d

DockerStage ==
    /\ pc = "docker"
    /\ detected' = DockerRule(detected, fileContents)
    /\ pc' = "ci"
    /\ UNCHANGED <<repo, filesFound, toFetch, requested, fileContents, wvars, lvars>>

\* analyze.js:220-224
CiRule(d, contents) ==
    LET ciFiles == SelectSeq(Keys(contents), StartsWithCiPrefix)
    IN  IF Len(ciFiles) > 0 THEN [d EXCEPT !.hasCI = TRUE, !.ciFiles = ciFiles] ELSE d

CiStage ==
    /\ pc = "ci"
    /\ detected' = CiRule(detected, fileContents)
    /\ pc' = "tests"
    /\ UNCHANGED <<repo, filesFound, toFetch, requested, fileContents, wvars, lvars>>

\* packageManager && packageManager.includes(sub), for sub 'npm' or 'pip'
ManagerIncludes(pm, sub) ==
    \/ pm = "npm|yarn" /\ sub = "npm"
    \/ pm = "pip/poetry/pipenv" /\ sub = "pip"

\* analyze.js:233-239
TestFolderRule(d, tree) ==
    IF ~d.hasTests /\ \E i \in 1..Len(tree) : MatchesTestFolder(tree[i].path)
    THEN [d EXCEPT
            !.hasTests = TRUE,
            !.testCommands =
                Append(@, IF ManagerIncludes(d.packageManager, "npm")
                          THEN "npm test" ELSE "pytest")]
    ELSE d

TestFolderStage ==
    /\ pc = "tests"
    /\ detected' = TestFolderRule(detected, TreeOf(repo))
    /\ pc' = "fallback"
    /\ UNCHANGED <<repo, filesFound, toFetch, requested, fileContents, wvars, lvars>>

\* Mutant of FallbackRule: container presence is tested before pip.
FallbackRuleDockerFirst(d) ==
    IF Len(d.runCommands) = 0
    THEN [d EXCEPT !.runCommands =
            Append(@,
                IF ManagerIncludes(d.packageManager, "npm")
                THEN "npm install && npm start"
                ELSE IF d.hasDocker
                THEN "docker build -t myapp . && docker run -p 3000:3000 myapp"
                ELSE IF ManagerIncludes(d.packageManager, "pip")
                THEN "pip install -r requirements.txt && python main.py"
                ELSE "Check project files for run instructions")]
    ELSE d

\* analyze.js:247-257
FallbackRule(d) ==
    IF Len(d.runCommands) = 0
    THEN [d EXCEPT !.runCommands =
            Append(@,
                IF ManagerIncludes(d.packageManager, "npm")
                THEN "npm install && npm start"
                ELSE IF ManagerIncludes(d.packageManager, "pip")
                THEN "pip install -r requirements.txt && python main.py"
                ELSE IF d.hasDocker
                THEN "docker build -t myapp . && docker run -p 3000:3000 myapp"
                ELSE "Check project files for run instructions")]
    ELSE d

FallbackStage ==
    /\ pc = "fallback"
    /\ detected' = FallbackRule(detected)
    /\ pc' = "done"
    /\ UNCHANGED <<repo, filesFound, toFetch, requested, fileContents, wvars, lvars>>

AnalyzeNext ==
    \/ CollectFiles
    \/ FetchNext
    \/ PackageJsonStage
    \/ PythonStage
    \/ DockerStage
    \/ CiStage
    \/ TestFolderStage
    \/ FallbackStage

(***************************************************************************)
(*                            Specifications                               *)
(***************************************************************************)

WebhookIdle ==
    /\ WEBHOOK_SECRET = ""
    /\ SKIP_WEBHOOK_VERIFY = FALSE
    /\ req = NoReq
    /\ res = NoRes
    /\ payload = NoPayload

LangIdle ==
    /\ extCounts = <<>>
    /\ languages = NoLanguages

AnalyzeIdle ==
    /\ repo = CHOOSE r \in Repos : r.pkg = "none" /\ r.workflows = 0
    /\ pc = "idle"
    /\ filesFound = <<>>
    /\ toFetch = <<>>
    /\ requested = <<>>
    /\ fileContents = <<>>
    /\ detected = InitialDetected

WebhookInit ==
    /\ LangIdle
    /\ AnalyzeIdle
    /\ WEBHOOK_SECRET \in Secrets
    /\ SKIP_WEBHOOK_VERIFY \in BOOLEAN
    /\ req = NoReq
    /\ res = NoRes
    /\ payload = NoPayload

\* app.post('/webhook', ...) answering one request.
PostWebhook ==
    \E r \in Requests :
        /\ req' = r
        /\ res' = WebhookResponse(WEBHOOK_SECRET, SKIP_WEBHOOK_VERIFY, r)
        /\ payload' = WebhookPayload(WEBHOOK_SECRET, SKIP_WEBHOOK_VERIFY, r)
        /\ UNCHANGED <<WEBHOOK_SECRET, SKIP_WEBHOOK_VERIFY, lvars, avars>>

WebhookNext == PostWebhook

WebhookSpec == WebhookInit /\ [][WebhookNext]_vars

LangStart == WebhookIdle /\ AnalyzeIdle /\ LangInit

LangNext == CallDetectPrimaryLanguages

LangSpec == LangStart /\ [][LangNext]_vars

AnalyzeStart == WebhookIdle /\ LangIdle /\ AnalyzeInit

AnalyzeSpec == AnalyzeStart /\ [][AnalyzeNext]_vars

(***************************************************************************)
(*                     Claims about POST /webhook                          *)
(***************************************************************************)

Handled == res # NoRes
BypassOff == ~SKIP_WEBHOOK_VERIFY
SecretSet == WEBHOOK_SECRET # ""

\* The digest of the request's raw body under the configured secret.
Digest(algo) == Computed(algo, WEBHOOK_SECRET, req.body.text)

\* The header the claim calls inspected equals the digest, a header counting
\* as present whenever the request carries it.
ValidByPresence ==
    /\ req.body.isBuffer
    /\ \/ req.sig256.present /\ req.sig256.value = Digest("sha256")
       \/ ~req.sig256.present /\ req.sig1.present /\ req.sig1.value = Digest("sha1")

\* The same with a header counting only when its value is not empty.
ValidByValue ==
    /\ req.body.isBuffer
    /\ \/ Truthy(req.sig256) /\ req.sig256.value = Digest("sha256")
       \/ ~Truthy(req.sig256) /\ Truthy(req.sig1) /\ req.sig1.value = Digest("sha1")

PassedVerification == SKIP_WEBHOOK_VERIFY \/ (SecretSet /\ ValidByValue)

BodyFailsJsonParse == ~JsonParse(req.body.text).ok

HasLabelCount(label, c) ==
    \E i \in 1..Len(extCounts) :
        LanguageMap(extCounts[i].ext) = label /\ extCounts[i].count = c

\* C6: detectPrimaryLanguages returns at most 3 labels, pairwise distinct,
\* each the label of a mapped extension of the counts, in descending order
\* of count; an unmapped extension never takes a slot.
C6_AsStated ==
    languages.done =>
        LET v == languages.value
        IN  /\ Len(v) <= 3
            /\ \A i, j \in 1..Len(v) : i # j => v[i] # v[j]
            /\ \A i \in 1..Len(v) :
                    v[i] # NULL /\ \E c \in 1..MaxCount : HasLabelCount(v[i], c)
            /\ \A i, j \in 1..Len(v) :
                    i < j => \E ci, cj \in 1..MaxCount :
                                /\ HasLabelCount(v[i], ci)
                                /\ HasLabelCount(v[j], cj)
                                /\ ci >= cj

(***************************************************************************)
(*                       Claims about analyzeRepo                          *)
(***************************************************************************)

\* C5: analyzeRepo never issues more than 40 file-content requests.
C5_FetchBound == Len(requested) <= 40

\* More than 40 paths were candidates and 40 requests have been made.
C5_Witness == Len(toFetch) > 40 /\ Len(requested) = 40 /\ pc = "done"

RemotePackageJson == safeGetFile(repo, <<"package.json">>)

\* package.json was fetched and spells a JSON object with a start and a
\* test script.
ManifestWithStartAndTest ==
    /\ SeqIncludes(requested, <<"package.json">>)
    /\ TextTruthy(RemotePackageJson)
    /\ RemotePackageJson.json.kind = "object"
    /\ IsTruthy(ScriptNamed(RemotePackageJson.json.scripts, "start"))
    /\ IsTruthy(ScriptNamed(RemotePackageJson.json.scripts, "test"))

\* C7: for every fetched package.json that is valid JSON with a start and a
\* test script, whatever its length, the result has hasTests, the test
\* script among testCommands, a packageManager, and the start script as
\* entrypoint.
C7_AsStated ==
    (pc = "done" /\ ManifestWithStartAndTest) =>
        /\ detected.hasTests
        /\ SeqIncludes(detected.testCommands,
                       ScriptNamed(RemotePackageJson.json.scripts, "test"))
        /\ detected.packageManager # NULL
        /\ detected.entrypoint = ScriptNamed(RemotePackageJson.json.scripts, "start")

RemoteDockerfile == safeGetFile(repo, <<"Dockerfile">>)

\* The argument of the last `kw` instruction of the Dockerfile.
LastDeclared(kw) ==
    LET ls == SelectSeq(RemoteDockerfile.lines, LAMBDA l : l.kw = kw)
    IN  IF ls = <<>> THEN NULL ELSE ls[Len(ls)].arg.s

DeclaresSeveral(kw) ==
    Len(SelectSeq(RemoteDockerfile.lines, LAMBDA l : l.kw = kw)) > 1

\* C8: for a fetched Dockerfile with several CMD and/or several ENTRYPOINT
\* instructions, dockerInfo holds the last CMD and the last ENTRYPOINT.
C8_AsStated ==
    (/\ pc = "done"
     /\ TextTruthy(Lookup(fileContents, <<"Dockerfile">>))
     /\ DeclaresSeveral("CMD") \/ DeclaresSeveral("ENTRYPOINT")) =>
        /\ detected.dockerInfo.cmd = LastDeclared("CMD")
        /\ detected.dockerInfo.entrypoint = LastDeclared("ENTRYPOINT")

\* The blobs of the tree under .github/workflows/.
WorkflowBlobs ==
    {TreeOf(repo)[i].path : i \in {j \in 1..Len(TreeOf(repo)) :
        /\ TreeOf(repo)[j].type = "blob"
        /\ StartsWithCiPrefix(TreeOf(repo)[j].path)}}

\* C9: when the tree holds a blob under .github/workflows/, the result has
\* hasCI and ciFiles lists every such path, however many files of interest
\* there are and whether or not their contents could be fetched.
C9_AsStated ==
    (pc = "done" /\ WorkflowBlobs # {}) =>
        /\ detected.hasCI
        /\ {detected.ciFiles[i] : i \in 1..Len(detected.ciFiles)} = WorkflowBlobs

\* C10: once packageManager, projectType or entrypoint is not null, no later
\* stage changes it.
C10_FirstWins ==
    [][/\ detected.packageManager # NULL =>
            detected'.packageManager = detected.packageManager
       /\ detected.projectType # NULL =>
            detected'.projectType = detected.projectType
       /\ detected.entrypoint # NULL =>
            detected'.entrypoint = detected.entrypoint]_vars

\* The Python and Dockerfile stages both ran over fetched files of their own
\* and the values set from package.json are still there.
C10_Witness ==
    /\ pc = "ci"
    /\ TextTruthy(Lookup(fileContents, <<"requirements.txt">>))
    /\ IsTruthy(detected.dockerInfo.cmd)
    /\ detected.packageManager = "npm|yarn"
    /\ detected.projectType = "node-project"
    /\ detected.entrypoint = StartCmd

\* The fallback command the priority order npm, pip, container, generic
\* picks for the facts detected so far.
ExpectedFallback ==
    IF detected.packageManager = "npm|yarn"
    THEN "npm install && npm start"
    ELSE IF detected.packageManager = "pip/poetry/pipenv"
    THEN "pip install -r requirements.txt && python main.py"
    ELSE IF detected.hasDocker
    THEN "docker build -t myapp . && docker run -p 3000:3000 myapp"
    ELSE "Check project files for run instructions"

\* C11: the result's runCommands is never empty; when no rule produced a run
\* command, the fallback stage appends exactly one command, chosen in the
\* order npm-style manager, pip-style manager, container, generic; when a
\* rule did produce one, the fallback stage appends nothing.
C11_Fallback ==
    [][/\ pc = "fallback" =>
            detected'.runCommands =
                IF detected.runCommands = <<>> THEN <<ExpectedFallback>>
                ELSE detected.runCommands
       /\ pc' = "done" => detected'.runCommands # <<>>]_vars

\* A repository with a pip-style manager and a Dockerfile got the pip
\* fallback as its only run command.
C11_Witness ==
    /\ pc = "done"
    /\ detected.packageManager = "pip/poetry/pipenv"
    /\ detected.hasDocker
    /\ detected.runCommands = <<"pip install -r requirements.txt && python main.py">>

Basename(path) == path[Len(path)]

\* The paths of the tree's blobs, in tree order.
TreeBlobSeq ==
    LET blobs == SelectSeq(TreeOf(repo), LAMBDA e : e.type = "blob")
    IN  [i \in 1..Len(blobs) |-> blobs[i].path]

NoDuplicates(s) == Cardinality({s[i] : i \in 1..Len(s)}) = Len(s)

Collected == pc \notin {"idle", "start"}

\* C12 as stated: filesFound holds exactly the blob paths whose basename is
\* in the manifest/config list, or that lie under .github/workflows/, or
\* whose lower-cased basename contains "readme"; each once, in tree order.
C12_AsStated ==
    Collected =>
        /\ NoDuplicates(filesFound)
        /\ filesFound =
            SelectSeq(TreeBlobSeq, LAMBDA p :
                \/ Basename(p) \in PATHS_OF_INTEREST
                \/ StartsWithCiPrefix(p)
                \/ Basename(p) \in ReadmeSegments)

\* C12 amended: filesFound holds exactly the blob paths that are, as a whole
\* path, an entry of the manifest/config list (a file at the root of the
\* tree), or that lie under .github/workflows/, or whose lower-cased path
\* contains "readme" anywhere, in a directory name too; each once, in tree
\* order.
C12_FilesFound ==
    Collected =>
        /\ NoDuplicates(filesFound)
        /\ filesFound =
            SelectSeq(TreeBlobSeq, LAMBDA p :
                \/ Len(p) = 1 /\ p[1] \in PATHS_OF_INTEREST
                \/ StartsWithCiPrefix(p)
                \/ \E i \in 1..Len(p) : p[i] \in ReadmeSegments)

\* A tree with sub/package.json and readme-assets/logo.png was collected:
\* the first is left out, the second is in, behind README.md.
C12_Witness ==
    /\ Collected
    /\ \E i \in 1..Len(TreeOf(repo)) : TreeOf(repo)[i].path = <<"sub", "package.json">>
    /\ ~SeqIncludes(filesFound, <<"sub", "package.json">>)
    /\ SeqIncludes(filesFound, <<"readme-assets", "logo.png">>)
    /\ SeqIncludes(filesFound, <<"README.md">>)
    /\ SeqIncludes(filesFound, WorkflowPath(1))

InTree(path) == \E i \in 1..Len(TreeOf(repo)) : TreeOf(repo)[i].path = path

\* C13 as stated: every content request is for a file of interest collected
\* from the tree, so none is spent on a path the tree does not hold.
C13_AsStated ==
    \A i \in 1..Len(requested) :
        SeqIncludes(filesFound, requested[i]) /\ InTree(requested[i])

\* The ten priority paths, then the files of interest that are not among
\* them, in the order collected.
PriorityThenFound ==
    priority \o SelectSeq(filesFound, LAMBDA p : \A k \in 1..Len(priority) : priority[k] # p)

\* C13 amended: every content request is for one of the ten fixed priority
\* paths, requested whether or not the tree holds them, or for a file of
\* interest collected from the tree; the requests are, in order and without
\* repetition, the first (at most 40) entries of the priority paths followed
\* by the remaining files of interest.
C13_Requests ==
    /\ Len(requested) <= 40
    /\ Len(requested) <= Len(PriorityThenFound)
    /\ \A i \in 1..Len(requested) : requested[i] = PriorityThenFound[i]
    /\ NoDuplicates(requested)
    /\ pc \in {"packageJson", "python", "docker", "ci", "tests", "fallback", "done"} =>
            Len(requested) = IF Len(PriorityThenFound) < 40
                             THEN Len(PriorityThenFound) ELSE 40

\* Requests went to setup.py, which the tree does not hold, and to
\* README.md, a file of interest outside the priority list.
C13_Witness ==
    /\ pc = "done"
    /\ SeqIncludes(requested, <<"setup.py">>)
    /\ ~InTree(<<"setup.py">>)
    /\ SeqIncludes(requested, <<"README.md">>)
    /\ InTree(<<"README.md">>)

====
